---- MODULE Spec2Model ----
(***************************************************************************)
(* jj-starship: repository detection (src/detect.rs), the command          *)
(* dispatch of main (src/main.rs) and the jj status collector              *)
(* (src/jj.rs).                                                            *)
(*                                                                         *)
(* A PathBuf is modelled as [abs, comps]: whether it starts at the         *)
(* filesystem root, and its components.  A relative path is resolved by    *)
(* the operating system against the process working directory osCwd; the  *)
(* code itself only ever manipulates the path lexically (join, pop).       *)
(***************************************************************************)
EXTENDS Integers, Sequences, FiniteSets

VARIABLES
    fs,         \* filesystem: absolute directory -> its ".jj" and ".git" entries
    osCwd,      \* the process working directory (absolute), or NoDir
    cli,        \* the parsed command line (struct Cli)
    gitFeature, \* whether the build has cfg(feature = "git")
    repo,       \* what the jj library finds at the repository root
    pc,         \* position of the process
    caller,     \* who called detect: "run_prompt", "in_repo" or "none"
    cwd,        \* main's cwd: the path detection starts from
    config,     \* the resolved Config
    current,    \* detect's local `current`
    result,     \* detect's DetectResult
    collected,  \* the collector's Result<Info>
    output,     \* run_prompt's Option<String>
    stdout,     \* the writes made to standard output, in order
    exitCode,   \* the process ExitCode, or NoExit while running
    events      \* the directory walks, repository opens and formats, in order

vars == <<fs, osCwd, cli, gitFeature, repo, pc, caller, cwd, config, current,
          result, collected, output, stdout, exitCode, events>>

-----------------------------------------------------------------------------
(* Bounds *)

MaxDepth == 2

MaxRemoteRefs == 2

MaxIdBytes == 2

-----------------------------------------------------------------------------
(* Paths and the filesystem *)

Names == {"a"}

RECURSIVE SeqsUpTo(_, _)
SeqsUpTo(S, n) ==
    IF n = 0 THEN {<<>>}
    ELSE LET shorter == SeqsUpTo(S, n - 1)
         IN shorter \cup {Append(s, x) : s \in shorter, x \in S}

Dirs == SeqsUpTo(Names, MaxDepth)

NoDir == <<"no current directory">>

EntryKinds == {"absent", "file", "dir"}

DirEntries == [jj : EntryKinds, git : EntryKinds]

NoEntries == [jj |-> "absent", git |-> "absent"]

AbsPath(comps) == [abs |-> TRUE, comps |-> comps]

RelPath(comps) == [abs |-> FALSE, comps |-> comps]

Paths == {AbsPath(c) : c \in Dirs} \cup {RelPath(c) : c \in Dirs}

\* The directory the operating system resolves a path to.
Resolve(p) ==
    IF p.abs THEN p.comps
    ELSE IF osCwd = NoDir THEN NoDir
    ELSE osCwd \o p.comps

EntryAt(p, name) ==
    LET d == Resolve(p)
    IN IF d \in DOMAIN fs THEN fs[d][name] ELSE "absent"

\* current.join(".jj").is_dir()
JoinIsDir(p, name) == EntryAt(p, name) = "dir"

\* current.join(".git").exists()
JoinExists(p, name) == EntryAt(p, name) # "absent"

\* PathBuf::pop: drops the last component; false, and no change, when the
\* path has no parent (the root "/", or the empty relative path).
PathPop(p) ==
    IF Len(p.comps) = 0 THEN [ok |-> FALSE, path |-> p]
    ELSE [ok |-> TRUE,
          path |-> [p EXCEPT !.comps = SubSeq(p.comps, 1, Len(p.comps) - 1)]]

NonePath == [some |-> FALSE, val |-> RelPath(<<>>)]

SomePath(p) == [some |-> TRUE, val |-> p]

-----------------------------------------------------------------------------
(* detect.rs *)

RepoType == {"Jj", "JjColocated", "Git", "None"}

HasJj(p) == JoinIsDir(p, "jj")

HasGit(p) == JoinExists(p, "git")

Classify(has_jj, has_git) ==
    CASE has_jj /\ has_git -> "JjColocated"
      [] has_jj /\ ~has_git -> "Jj"
      [] ~has_jj /\ has_git -> "Git"
      [] OTHER -> "None"

NoResult == [repo_type |-> "unset", repo_root |-> NonePath]

\* One iteration of detect's loop.
DetectIter ==
    /\ pc = "detect"
    /\ LET repo_type == Classify(HasJj(current), HasGit(current))
           popped == PathPop(current)
       IN IF repo_type # "None"
          THEN /\ result' = [repo_type |-> repo_type, repo_root |-> SomePath(current)]
               /\ pc' = "detected"
               /\ UNCHANGED current
          ELSE IF ~popped.ok
          THEN /\ result' = [repo_type |-> "None", repo_root |-> NonePath]
               /\ pc' = "detected"
               /\ UNCHANGED current
          ELSE /\ current' = popped.path
               /\ UNCHANGED <<result, pc>>
    /\ UNCHANGED <<fs, osCwd, cli, gitFeature, repo, caller, cwd, config,
                   collected, output, stdout, exitCode, events>>

-----------------------------------------------------------------------------
(* Option and Result values *)

NoneStr == [some |-> FALSE, val |-> ""]

SomeStr(s) == [some |-> TRUE, val |-> s]

NoneNum == [some |-> FALSE, val |-> 0]

SomeNum(n) == [some |-> TRUE, val |-> n]

Min(a, b) == IF a <= b THEN a ELSE b

-----------------------------------------------------------------------------
(* jj.rs: what the jj library reports, and collect *)

CommitIds == {"c1", "c2"}

NoCommit == "no commit"

\* Bookmark names in the order the view iterates them.
BookmarkOrder == <<"dev", "main">>

BookmarkNames == {BookmarkOrder[i] : i \in DOMAIN BookmarkOrder}

RemoteNames == {"git", "origin", "upstream"}

\* A RefTarget is modelled by the set of commit ids it adds: none when the
\* ref is absent, one when it is normal, more when it is conflicted.
RefTargets == SUBSET CommitIds

\* RefTarget::as_normal
AsNormal(target) ==
    IF Cardinality(target) = 1
    THEN [some |-> TRUE, val |-> CHOOSE id \in target : TRUE]
    ELSE [some |-> FALSE, val |-> NoCommit]

RemoteRefs == [name : BookmarkNames, remote : RemoteNames, target : RefTargets]

RevHexDigits ==
    <<"z", "y", "x", "w", "v", "u", "t", "s", "r", "q", "p", "o", "n", "m", "l", "k">>

\* jj_lib::hex_util::encode_reverse_hex: two digits per byte, 0 -> z ... f -> k
RECURSIVE encode_reverse_hex(_)
encode_reverse_hex(bytes) ==
    IF bytes = <<>> THEN <<>>
    ELSE <<RevHexDigits[(Head(bytes) \div 16) + 1], RevHexDigits[(Head(bytes) % 16) + 1]>>
         \o encode_reverse_hex(Tail(bytes))

\* change_id_full[..id_length.min(change_id_full.len())]
TruncateId_Fixed8(change_id_full, id_length) ==
    SubSeq(change_id_full, 1, Min(8, Len(change_id_full)))

TruncateId(change_id_full, id_length) ==
    SubSeq(change_id_full, 1, Min(id_length, Len(change_id_full)))

IsWhitespace(c) == c \in {" ", "\n", "\t"}

RECURSIVE TrimStart(_)
TrimStart(s) ==
    IF s # <<>> /\ IsWhitespace(Head(s)) THEN TrimStart(Tail(s)) ELSE s

RECURSIVE TrimEnd(_)
TrimEnd(s) ==
    IF s # <<>> /\ IsWhitespace(s[Len(s)]) THEN TrimEnd(SubSeq(s, 1, Len(s) - 1)) ELSE s

\* str::trim
Trim(s) == TrimEnd(TrimStart(s))

\* commit.description().trim().is_empty()
EmptyDesc(description) == Trim(description) = <<>>

\* repo.resolve_change_id(..).ok().flatten().is_some_and(|c| c.len() > 1);
\* resolved is -1 for Err, 0 for Ok(None), else the number of commits.
Divergent(resolved) == resolved > 1

\* view.local_bookmarks_for_commit(wc_id): the local bookmarks whose target
\* adds wc_id, in the view's order; .next() takes the first.
LocalBookmarksForCommit(local_bookmarks, wc_id) ==
    SelectSeq(BookmarkOrder, LAMBDA n : wc_id \in local_bookmarks[n])

FindBookmark(local_bookmarks, wc_id) ==
    LET at == LocalBookmarksForCommit(local_bookmarks, wc_id)
    IN IF at = <<>> THEN NoneStr ELSE SomeStr(Head(at))

\* StringPattern::exact(bm_name) with StringMatcher::All for the remote
NameMatches(remote_ref, bm_name) == remote_ref.name = bm_name

\* .filter(|(symbol, _)| symbol.remote.as_str() != "git")
NotGitRemote(remote_ref) == remote_ref.remote # "git"

ThisSynced(remote_ref, wc_id) ==
    LET n == AsNormal(remote_ref.target) IN n.some /\ n.val = wc_id

\* The fold's step: |(_, synced), (_, remote_ref)| (true, synced || this_synced)
SyncStep_LastWins(acc, remote_ref, wc_id) == <<TRUE, ThisSynced(remote_ref, wc_id)>>

SyncStep_KeepsHasRemote(acc, remote_ref, wc_id) ==
    <<acc[1], acc[2] \/ ThisSynced(remote_ref, wc_id)>>

SyncStep(acc, remote_ref, wc_id) == <<TRUE, acc[2] \/ ThisSynced(remote_ref, wc_id)>>

RECURSIVE SyncFold(_, _, _)
SyncFold(refs, acc, wc_id) ==
    IF refs = <<>> THEN acc
    ELSE SyncFold(Tail(refs), SyncStep(acc, Head(refs), wc_id), wc_id)

\* The value taken when no bookmark is at the working copy.
NoBookmarkSync_Unsynced == <<FALSE, FALSE>>

NoBookmarkSync == <<FALSE, TRUE>>

RemoteSync(remote_bookmarks, bookmark, wc_id) ==
    IF bookmark.some
    THEN LET matching == SelectSeq(remote_bookmarks,
                                   LAMBDA r : NameMatches(r, bookmark.val))
             kept == SelectSeq(matching, NotGitRemote)
         IN SyncFold(kept, <<FALSE, FALSE>>, wc_id)
    ELSE NoBookmarkSync

NoInfo == [kind |-> "none"]

Err(msg) == [ok |-> FALSE, err |-> msg, info |-> NoInfo]

Ok(info) == [ok |-> TRUE, err |-> "", info |-> info]

NotCollected == [ok |-> FALSE, err |-> "not called", info |-> NoInfo]

\* jj::collect.  r.fail_at names the first library call that fails, if any.
JjCollect(r, id_length) ==
    IF r.fail_at = "settings" THEN Err("settings")
    ELSE IF r.fail_at = "workspace" THEN Err("load workspace")
    ELSE IF r.fail_at = "repo" THEN Err("load repo")
    ELSE IF r.wc_id = NoCommit THEN Err("no working copy")
    ELSE IF r.fail_at = "commit" THEN Err("get commit")
    ELSE LET change_id_full == encode_reverse_hex(r.change_id)
             bookmark == FindBookmark(r.local_bookmarks, r.wc_id)
             sync == RemoteSync(r.remote_bookmarks, bookmark, r.wc_id)
         IN Ok([kind |-> "jj",
                change_id |-> TruncateId(change_id_full, id_length),
                bookmark |-> bookmark,
                empty_desc |-> EmptyDesc(r.description),
                conflict |-> r.has_conflict,
                divergent |-> Divergent(r.resolved),
                has_remote |-> sync[1],
                is_synced |-> sync[2]])

-----------------------------------------------------------------------------
(* config.rs and output.rs *)

DefaultIdLength == 8

DefaultJjSymbol == "jj-default-symbol "

DefaultGitSymbol == "git-default-symbol "

\* Config::new: every absent override falls back to its default, and
\* no_symbol empties both symbols whatever was supplied.
ConfigNew(truncate_name, id_length, jj_symbol, git_symbol, no_symbol) ==
    [truncate_name |-> IF truncate_name.some THEN truncate_name.val ELSE 0,
     id_length |-> IF id_length.some THEN id_length.val ELSE DefaultIdLength,
     jj_symbol |-> IF no_symbol THEN ""
                   ELSE IF jj_symbol.some THEN jj_symbol.val ELSE DefaultJjSymbol,
     git_symbol |-> IF no_symbol THEN ""
                    ELSE IF git_symbol.some THEN git_symbol.val ELSE DefaultGitSymbol]

NoConfig == [truncate_name |-> 0, id_length |-> 0, jj_symbol |-> "unset",
             git_symbol |-> "unset"]

\* A name cut to truncate_name characters (0 = unlimited); names are kept whole
\* here, the cut being recorded beside them.
ShownName(name, cfg) == <<name, cfg.truncate_name>>

StatusSegment(info) ==
    LET marks == (IF info.conflict THEN <<"conflict">> ELSE <<>>)
                 \o (IF info.divergent THEN <<"divergent">> ELSE <<>>)
                 \o (IF info.empty_desc THEN <<"empty-desc">> ELSE <<>>)
                 \o (IF info.has_remote /\ ~info.is_synced THEN <<"unsynced">> ELSE <<>>)
    IN IF marks = <<>> THEN <<>> ELSE <<" [">> \o marks \o <<"]">>

\* output::format_jj: symbol, "on ", the bookmark, the change id, the status
\* bracket; one line, no trailing newline.
format_jj(info, cfg) ==
    <<cfg.jj_symbol, "on ">>
    \o (IF info.bookmark.some THEN <<ShownName(info.bookmark.val, cfg), " ">> ELSE <<>>)
    \o info.change_id
    \o StatusSegment(info)

\* output::format_git
format_git(info, cfg) ==
    <<cfg.git_symbol, "on ">>
    \o (IF info.branch.some THEN <<ShownName(info.branch.val, cfg), " ">> ELSE <<>>)
    \o info.commit

\* git::collect: an error, or the facts of the branch-oriented backend.
GitCollectOutcomes ==
    {Err("git"),
     Ok([kind |-> "git", branch |-> SomeStr("main"), commit |-> <<"0", "1">>]),
     Ok([kind |-> "git", branch |-> NoneStr, commit |-> <<"f", "e">>])}

NoOutput == [some |-> FALSE, val |-> <<>>]

SomeOutput(text) == [some |-> TRUE, val |-> text]

-----------------------------------------------------------------------------
(* main.rs *)

Commands == {"none", "Prompt", "Detect", "Version"}

\* cli.command.unwrap_or(Command::Prompt)
Command(c) == IF c.command = "none" THEN "Prompt" ELSE c.command

\* cli.cwd.or_else(|| env::current_dir().ok())
ResolveCwd(c) ==
    IF c.cwd.some THEN c.cwd
    ELSE IF osCwd # NoDir THEN SomePath(AbsPath(osCwd))
    ELSE NonePath

\* git_symbol is cli.git.git_symbol with the git feature, None without it.
MainGitSymbol(c) == IF gitFeature THEN c.git_symbol ELSE NoneStr

\* The no_symbol argument main hands to Config::new.
MainNoSymbol_Dropped(c) == FALSE

MainNoSymbol(c) == c.no_symbol

\* main up to the match on the command: the working directory and the Config.
Main_Setup ==
    /\ pc = "main"
    /\ LET resolved == ResolveCwd(cli)
       IN IF ~resolved.some
          THEN /\ exitCode' = "FAILURE"
               /\ pc' = "exit"
               /\ UNCHANGED <<cwd, config>>
          ELSE /\ cwd' = resolved
               /\ config' = ConfigNew(cli.truncate_name, cli.id_length, cli.jj_symbol,
                                      MainGitSymbol(cli), MainNoSymbol(cli))
               /\ pc' = "dispatch"
               /\ UNCHANGED exitCode
    /\ UNCHANGED <<fs, osCwd, cli, gitFeature, repo, caller, current, result,
                   collected, output, stdout, events>>

\* print!("{output}"): one write of the text as it is.
PrintMacro_Newline(out, text) == Append(out, text \o <<"\n">>)

PrintMacro(out, text) == Append(out, text)

\* println!("{line}")
PrintlnMacro(out, text) == Append(out, text \o <<"\n">>)

\* Command::Prompt => run_prompt(&cwd, &config), which first calls detect
Main_Prompt ==
    /\ pc = "dispatch"
    /\ Command(cli) = "Prompt"
    /\ caller' = "run_prompt"
    /\ current' = cwd.val
    /\ events' = Append(events, "walk")
    /\ pc' = "detect"
    /\ UNCHANGED <<fs, osCwd, cli, gitFeature, repo, cwd, config, result,
                   collected, output, stdout, exitCode>>

\* Command::Detect => detect::in_repo(&cwd), which calls detect
Main_Detect ==
    /\ pc = "dispatch"
    /\ Command(cli) = "Detect"
    /\ caller' = "in_repo"
    /\ current' = cwd.val
    /\ events' = Append(events, "walk")
    /\ pc' = "detect"
    /\ UNCHANGED <<fs, osCwd, cli, gitFeature, repo, cwd, config, result,
                   collected, output, stdout, exitCode>>

VersionLines ==
    <<<<"jj-starship ", "version">>, <<"change: ", "change_id">>,
      <<"commit: ", "commit">>, <<"built:  ", "date">>,
      <<"features: ", IF gitFeature THEN "git" ELSE "none">>>>

RECURSIVE PrintLines(_, _)
PrintLines(out, lines) ==
    IF lines = <<>> THEN out
    ELSE PrintLines(PrintlnMacro(out, Head(lines)), Tail(lines))

\* Command::Version => print_version()
Main_Version ==
    /\ pc = "dispatch"
    /\ Command(cli) = "Version"
    /\ stdout' = PrintLines(stdout, VersionLines)
    /\ exitCode' = "SUCCESS"
    /\ pc' = "exit"
    /\ UNCHANGED <<fs, osCwd, cli, gitFeature, repo, caller, cwd, config, current,
                   result, collected, output, events>>

\* in_repo's comparison and Command::Detect's exit code
InRepo_OnlyJj(res) == res.repo_type \in {"Jj", "JjColocated"}

InRepo(res) == res.repo_type # "None"

Main_DetectExit ==
    /\ pc = "detected"
    /\ caller = "in_repo"
    /\ exitCode' = IF InRepo(result) THEN "SUCCESS" ELSE "FAILURE"
    /\ pc' = "exit"
    /\ UNCHANGED <<fs, osCwd, cli, gitFeature, repo, caller, cwd, config, current,
                   result, collected, output, stdout, events>>

\* The arm of run_prompt's match taken for a repo type.
PromptArm_GitAsJj(repo_type) ==
    IF repo_type \in {"Jj", "JjColocated", "Git"} THEN "jj" ELSE "none"

PromptArm(repo_type) ==
    IF repo_type \in {"Jj", "JjColocated"} THEN "jj"
    ELSE IF repo_type = "Git" /\ gitFeature THEN "git"
    ELSE "none"

\* run_prompt, RepoType::Jj | RepoType::JjColocated.  main also hands collect
\* config.ancestor_bookmark_depth, which jj::collect as given does not take.
RunPrompt_Jj ==
    /\ pc = "detected"
    /\ caller = "run_prompt"
    /\ PromptArm(result.repo_type) = "jj"
    /\ IF ~result.repo_root.some
       THEN /\ output' = NoOutput
            /\ UNCHANGED <<collected, events>>
       ELSE LET r == JjCollect(repo, config.id_length)
            IN /\ collected' = r
               /\ IF r.ok
                  THEN /\ output' = SomeOutput(format_jj(r.info, config))
                       /\ events' = events \o <<"open_jj", "format_jj">>
                  ELSE /\ output' = NoOutput
                       /\ events' = Append(events, "open_jj")
    /\ pc' = "prompted"
    /\ UNCHANGED <<fs, osCwd, cli, gitFeature, repo, caller, cwd, config, current,
                   result, stdout, exitCode>>

\* run_prompt, RepoType::Git with the git feature
RunPrompt_Git ==
    /\ pc = "detected"
    /\ caller = "run_prompt"
    /\ PromptArm(result.repo_type) = "git"
    /\ IF ~result.repo_root.some
       THEN /\ output' = NoOutput
            /\ UNCHANGED <<collected, events>>
       ELSE \E r \in GitCollectOutcomes :
               /\ collected' = r
               /\ IF r.ok
                  THEN /\ output' = SomeOutput(format_git(r.info, config))
                       /\ events' = events \o <<"open_git", "format_git">>
                  ELSE /\ output' = NoOutput
                       /\ events' = Append(events, "open_git")
    /\ pc' = "prompted"
    /\ UNCHANGED <<fs, osCwd, cli, gitFeature, repo, caller, cwd, config, current,
                   result, stdout, exitCode>>

\* run_prompt, RepoType::None and the disabled variants
RunPrompt_None ==
    /\ pc = "detected"
    /\ caller = "run_prompt"
    /\ PromptArm(result.repo_type) = "none"
    /\ output' = NoOutput
    /\ pc' = "prompted"
    /\ UNCHANGED <<fs, osCwd, cli, gitFeature, repo, caller, cwd, config, current,
                   result, collected, stdout, exitCode, events>>

\* The exit code of Command::Prompt for run_prompt's value.
PromptExit_AlwaysSuccess(out) == "SUCCESS"

PromptExit(out) == IF out.some THEN "SUCCESS" ELSE "FAILURE"

\* Command::Prompt: print the output if there is one, and exit
Main_PromptExit ==
    /\ pc = "prompted"
    /\ stdout' = IF output.some THEN PrintMacro(stdout, output.val) ELSE stdout
    /\ exitCode' = PromptExit(output)
    /\ pc' = "exit"
    /\ UNCHANGED <<fs, osCwd, cli, gitFeature, repo, caller, cwd, config, current,
                   result, collected, output, events>>

\* jj::collect called on its own, for the claims about the collector.
Collect_Jj ==
    /\ pc = "collect"
    /\ collected' = JjCollect(repo, config.id_length)
    /\ events' = Append(events, "open_jj")
    /\ pc' = "collected"
    /\ UNCHANGED <<fs, osCwd, cli, gitFeature, repo, caller, cwd, config, current,
                   result, output, stdout, exitCode>>

-----------------------------------------------------------------------------
(* Initial states *)

NoCli == [command |-> "none", cwd |-> NonePath, truncate_name |-> NoneNum,
          id_length |-> NoneNum, jj_symbol |-> NoneStr, git_symbol |-> NoneStr,
          no_symbol |-> FALSE]

EmptyRepo ==
    [fail_at |-> "none", wc_id |-> "c1", change_id |-> <<0, 255>>,
     description |-> <<>>, has_conflict |-> FALSE, resolved |-> 1,
     local_bookmarks |-> [n \in BookmarkNames |-> {}],
     remote_bookmarks |-> <<>>]

\* A path the bounded filesystem holds: resolved, it is one of Dirs.
Resolvable(p, base) ==
    IF p.abs THEN TRUE ELSE base # NoDir /\ Len(base) + Len(p.comps) <= MaxDepth

\* detect called on any start path over any filesystem
InitDetect ==
    /\ fs \in [Dirs -> DirEntries]
    /\ osCwd \in Dirs
    /\ cwd \in {SomePath(p) : p \in {q \in Paths : Resolvable(q, osCwd)}}
    /\ current = cwd.val
    /\ pc = "detect"
    /\ caller = "none"
    /\ cli = NoCli
    /\ gitFeature = TRUE
    /\ repo = EmptyRepo
    /\ config = NoConfig
    /\ result = NoResult
    /\ collected = NotCollected
    /\ output = NoOutput
    /\ stdout = <<>>
    /\ exitCode = "running"
    /\ events = <<"walk">>

SpecDetect == InitDetect /\ [][DetectIter]_vars

-----------------------------------------------------------------------------
(* Properties of detect *)

Prefix(d, k) == SubSeq(d, 1, k)

\* A directory that has a ".jj" directory or a ".git" entry.
Marked(d) == d \in DOMAIN fs /\ (fs[d].jj = "dir" \/ fs[d].git # "absent")

HasBoth(d) == d \in DOMAIN fs /\ fs[d].jj = "dir" /\ fs[d].git # "absent"

\* The directory detection starts in, as the operating system resolves it.
StartDir == Resolve(cwd.val)

\* The lengths of the marked directories of the chain start, parent(start),
\* ..., filesystem root.
MarkedAncestors == {k \in 0..Len(StartDir) : Marked(Prefix(StartDir, k))}

Nearest(ks) == CHOOSE k \in ks : \A j \in ks : j <= k

\* The walk is at the start path or at a lexical ancestor of it.
OnStartChain ==
    /\ current.abs = cwd.val.abs
    /\ Len(current.comps) <= Len(cwd.val.comps)
    /\ current.comps = Prefix(cwd.val.comps, Len(current.comps))

DetectNearest ==
    /\ (MarkedAncestors = {}) <=>
           (result.repo_type = "None" /\ ~result.repo_root.some)
    /\ MarkedAncestors # {} =>
           /\ result.repo_root.some
           /\ Resolve(result.repo_root.val) = Prefix(StartDir, Nearest(MarkedAncestors))
    /\ ~result.repo_root.some => result.repo_type = "None"

\* C1: detect(start) returns repo_root = Some(r) exactly when r is the nearest
\* directory of the chain start, parent(start), ..., filesystem root that has
\* a ".jj" directory or a ".git" entry, and repo_type = None with repo_root =
\* None exactly when no directory of that chain has a marker; repo_root is
\* None only when repo_type is None; the walk stays on the chain of the
\* start's ancestors.
C1_DetectNearestMarkedAncestor ==
    /\ pc = "detect" => OnStartChain
    /\ pc = "detected" => DetectNearest

\* What holds of every start: the same, over the directories the walk visits,
\* which for an absolute start are all its ancestors.
Detect_NearestForAbsoluteStart ==
    (pc = "detected" /\ cwd.val.abs) => DetectNearest

\* C2: when the ".jj" directory and the ".git" entry are at the same ancestor
\* of the start (the nearest one that has a marker), detect returns
\* JjColocated, never Jj or Git.
C2_BothMarkersGiveColocated ==
    (/\ pc = "detected"
     /\ MarkedAncestors # {}
     /\ HasBoth(Prefix(StartDir, Nearest(MarkedAncestors))))
    => result.repo_type = "JjColocated"

Detect_ColocatedForAbsoluteStart ==
    (/\ pc = "detected"
     /\ cwd.val.abs
     /\ MarkedAncestors # {}
     /\ HasBoth(Prefix(StartDir, Nearest(MarkedAncestors))))
    => result.repo_type = "JjColocated"

\* Where the walk stops, both markers give JjColocated and a root there.
Detect_ColocatedWhereFound ==
    (pc = "detected" /\ result.repo_root.some)
    => (result.repo_type = "JjColocated" <=> HasBoth(Resolve(result.repo_root.val)))

-----------------------------------------------------------------------------
(* The process: main over a command line, a filesystem and a repository *)

\* Filesystems with one directory carrying entries, the others bare.
MainFileSystems ==
    {[d \in Dirs |-> IF d = m THEN e ELSE NoEntries] : m \in Dirs, e \in DirEntries}

MainRepos ==
    {EmptyRepo,
     [EmptyRepo EXCEPT !.fail_at = "workspace"],
     [EmptyRepo EXCEPT !.wc_id = NoCommit],
     [EmptyRepo EXCEPT !.local_bookmarks = [n \in BookmarkNames |-> {"c1"}],
                       !.remote_bookmarks =
                           <<[name |-> "dev", remote |-> "origin", target |-> {"c2"}]>>,
                       !.description = <<"x">>]}

InitMain ==
    /\ fs \in MainFileSystems
    /\ osCwd \in Dirs \cup {NoDir}
    /\ gitFeature \in BOOLEAN
    /\ repo \in MainRepos
    /\ cli \in {[NoCli EXCEPT !.command = c, !.cwd = w] :
                    c \in Commands,
                    w \in {NonePath}
                          \cup {SomePath(p) : p \in {q \in Paths : Resolvable(q, osCwd)}}}
    /\ pc = "main"
    /\ caller = "none"
    /\ cwd = NonePath
    /\ current = RelPath(<<>>)
    /\ config = NoConfig
    /\ result = NoResult
    /\ collected = NotCollected
    /\ output = NoOutput
    /\ stdout = <<>>
    /\ exitCode = "running"
    /\ events = <<>>

NextMain ==
    \/ Main_Setup
    \/ Main_Prompt
    \/ Main_Detect
    \/ Main_Version
    \/ DetectIter
    \/ Main_DetectExit
    \/ RunPrompt_Jj
    \/ RunPrompt_Git
    \/ RunPrompt_None
    \/ Main_PromptExit

Spec == InitMain /\ [][NextMain]_vars

-----------------------------------------------------------------------------
(* Properties of main *)

InPromptMode == Command(cli) = "Prompt"

InDetectMode == Command(cli) = "Detect"

\* run_prompt has returned and the process has exited.
PromptFinished == pc = "exit" /\ InPromptMode /\ caller = "run_prompt"

Count(seq, x) == Cardinality({i \in DOMAIN seq : seq[i] = x})

Opens == {"open_jj", "open_git"}

OpenCount == Cardinality({i \in DOMAIN events : events[i] \in Opens})

\* A collector was called for the detected kind and returned Ok.
CollectedOk == PromptArm(result.repo_type) # "none" /\ collected.ok

\* C3, as claimed: in prompt mode the process exits with the success code
\* whether a repository was found and collected, none was found, or the
\* collection returned an error.
C3_PromptAlwaysExitsSuccess ==
    PromptFinished => exitCode = "SUCCESS"

\* C3, amended: in prompt mode the process exits with the success code exactly
\* when a repository was found and its collector returned Ok; when no
\* repository was found, or the collection returned an error (or the working
\* directory is unknown), it exits with the failure code.
C3_PromptExitFollowsOutput ==
    (pc = "exit" /\ InPromptMode) =>
        /\ exitCode \in {"SUCCESS", "FAILURE"}
        /\ exitCode = "SUCCESS" <=> CollectedOk

C3_Witness_CollectionErrorFails ==
    /\ PromptFinished
    /\ result.repo_type = "Jj"
    /\ "open_jj" \in {events[i] : i \in DOMAIN events}
    /\ ~collected.ok
    /\ exitCode = "FAILURE"

Rendered ==
    IF collected.info.kind = "jj" THEN format_jj(collected.info, config)
    ELSE format_git(collected.info, config)

\* C5: in prompt mode text is written to standard output only after detect
\* returned a repository kind and the collector of that kind returned Ok; when
\* no repository is found or the collection fails nothing is written; what is
\* written is the complete rendered string, in one write, with no newline
\* after it.
C5_PromptOutputOnlyAfterCollection ==
    InPromptMode =>
        /\ stdout # <<>> =>
              /\ pc = "exit"
              /\ result.repo_type \in {"Jj", "JjColocated", "Git"}
              /\ CollectedOk
              /\ stdout = <<Rendered>>
        /\ (pc = "exit" /\ ~CollectedOk) => stdout = <<>>
        /\ (pc = "exit" /\ CollectedOk) => stdout = <<Rendered>>

C5_Witness_RenderedWritten ==
    /\ PromptFinished
    /\ result.repo_type = "JjColocated"
    /\ collected.ok
    /\ stdout = <<format_jj(collected.info, config)>>

\* C10: a process performs at most one directory walk and at most one
\* repository open, the walk first; in prompt mode the jj collector runs
\* exactly when detect returned Jj or JjColocated, the git collector exactly
\* when it returned Git and the git feature is on, and none when it returned
\* None; formatting is given the facts of the collector that ran.
C10_OneWalkThenOneOpen ==
    /\ Count(events, "walk") <= 1
    /\ OpenCount <= 1
    /\ \A i \in DOMAIN events :
          events[i] \in Opens => (i = 2 /\ events[1] = "walk" /\ pc \in {"prompted", "exit"})
    /\ \A i \in DOMAIN events :
          /\ events[i] = "format_jj" =>
                (i = 3 /\ events[2] = "open_jj" /\ collected.ok /\ collected.info.kind = "jj"
                 /\ output = SomeOutput(format_jj(collected.info, config)))
          /\ events[i] = "format_git" =>
                (i = 3 /\ events[2] = "open_git" /\ collected.ok /\ collected.info.kind = "git"
                 /\ output = SomeOutput(format_git(collected.info, config)))
    /\ (caller = "run_prompt" /\ pc \in {"prompted", "exit"}) =>
          /\ Count(events, "walk") = 1
          /\ Count(events, "open_jj") = 1 <=> result.repo_type \in {"Jj", "JjColocated"}
          /\ Count(events, "open_git") = 1 <=> (result.repo_type = "Git" /\ gitFeature)
          /\ result.repo_type = "None" => OpenCount = 0

C10_Witness_GitCollectorRan ==
    /\ PromptFinished
    /\ result.repo_type = "Git"
    /\ events = <<"walk", "open_git", "format_git">>

-----------------------------------------------------------------------------
(* The collector on its own: jj::collect over the repositories of a bound *)

DistinctKeys(w) ==
    \A i, j \in DOMAIN w :
        (i # j) => (w[i].name # w[j].name \/ w[i].remote # w[j].remote)

\* The sequences of at most n remote refs, no (name, remote) pair twice, in
\* any order.
RECURSIVE RemoteSeqs(_)
RemoteSeqs(n) ==
    IF n = 0 THEN {<<>>}
    ELSE LET shorter == RemoteSeqs(n - 1)
             longest == {q \in shorter : Len(q) = n - 1}
         IN shorter \cup
            {w \in {Append(q, r) : q \in longest, r \in RemoteRefs} : DistinctKeys(w)}

\* Repositories that differ in their bookmarks.
ViewRepos ==
    {[EmptyRepo EXCEPT !.local_bookmarks = l, !.remote_bookmarks = q] :
        l \in [BookmarkNames -> RefTargets], q \in RemoteSeqs(MaxRemoteRefs)}

ByteSamples == {0, 171, 255}

ChangeIdBytes == SeqsUpTo(ByteSamples, MaxIdBytes) \cup {<<0, 0, 0, 0, 255, 255, 255, 255>>}

Descriptions == {<<>>, <<" ">>, <<"\n", " ">>, <<"x">>, <<" ", "x", "\n">>}

\* Repositories that differ in the working-copy commit.
CommitRepos ==
    {[EmptyRepo EXCEPT !.change_id = b, !.description = d, !.has_conflict = c,
                       !.resolved = n] :
        b \in ChangeIdBytes, d \in Descriptions, c \in BOOLEAN, n \in {-1, 0, 1, 2}}

\* Repositories where a library call fails.
BrokenRepos ==
    {[EmptyRepo EXCEPT !.fail_at = f] : f \in {"settings", "workspace", "repo", "commit"}}
    \cup {[EmptyRepo EXCEPT !.wc_id = NoCommit]}

IdLengthArgs ==
    {NoneNum, SomeNum(0), SomeNum(1), SomeNum(3), SomeNum(8), SomeNum(16), SomeNum(20)}

InitCollect ==
    /\ \/ repo \in ViewRepos /\ cli = NoCli
       \/ /\ repo \in CommitRepos \cup BrokenRepos
          /\ cli \in {[NoCli EXCEPT !.id_length = n] : n \in IdLengthArgs}
    /\ config = ConfigNew(cli.truncate_name, cli.id_length, cli.jj_symbol,
                          cli.git_symbol, cli.no_symbol)
    /\ fs = [d \in Dirs |-> IF d = <<>> THEN [jj |-> "dir", git |-> "absent"] ELSE NoEntries]
    /\ osCwd = <<>>
    /\ gitFeature = TRUE
    /\ cwd = SomePath(AbsPath(<<>>))
    /\ current = AbsPath(<<>>)
    /\ result = [repo_type |-> "Jj", repo_root |-> SomePath(AbsPath(<<>>))]
    /\ pc = "collect"
    /\ caller = "run_prompt"
    /\ collected = NotCollected
    /\ output = NoOutput
    /\ stdout = <<>>
    /\ exitCode = "running"
    /\ events = <<"walk">>

SpecCollect == InitCollect /\ [][Collect_Jj]_vars

-----------------------------------------------------------------------------
(* Properties of jj::collect *)

Collected == pc = "collected" /\ collected.ok

\* The remote refs named like the bookmark, on a remote other than "git".
MatchingRemotes(bm) ==
    {i \in DOMAIN repo.remote_bookmarks :
        /\ repo.remote_bookmarks[i].name = bm
        /\ repo.remote_bookmarks[i].remote # "git"}

\* Every order of a sequence.
Orders(q) ==
    {[i \in DOMAIN q |-> q[f[i]]] :
        f \in {g \in [DOMAIN q -> DOMAIN q] : \A i, j \in DOMAIN q : g[i] = g[j] => i = j}}

\* C6: with a bookmark at the working copy, has_remote is true iff some remote
\* ref of exactly that name is on a remote other than "git", and is_synced is
\* true iff some such ref has a normal target equal to the working-copy
\* commit; every matching ref counts, so the order of the refs does not
\* change the result.
C6_RemoteSyncOverAllMatches ==
    (Collected /\ collected.info.bookmark.some) =>
        LET bm == collected.info.bookmark.val
            m == MatchingRemotes(bm)
        IN /\ collected.info.has_remote <=> m # {}
           /\ collected.info.is_synced <=>
                  \E i \in m : repo.remote_bookmarks[i].target = {repo.wc_id}
           /\ \A q \in Orders(repo.remote_bookmarks) :
                  RemoteSync(q, collected.info.bookmark, repo.wc_id)
                      = <<collected.info.has_remote, collected.info.is_synced>>

\* Two remotes hold the bookmark and disagree, the synced one first.
C6_Witness_RemotesDisagree ==
    /\ Collected
    /\ collected.info.bookmark = SomeStr("main")
    /\ Len(repo.remote_bookmarks) = 2
    /\ MatchingRemotes("main") = {1, 2}
    /\ repo.remote_bookmarks[1].target = {repo.wc_id}
    /\ repo.remote_bookmarks[2].target # {repo.wc_id}
    /\ collected.info.has_remote
    /\ collected.info.is_synced

\* No local bookmark points at the working-copy commit.
NoLocalBookmarkAtWc == \A n \in BookmarkNames : repo.wc_id \notin repo.local_bookmarks[n]

\* C7: when no local bookmark points at the working copy the result has
\* bookmark = None, has_remote = false and is_synced = true, whatever remote
\* refs the view holds.
C7_NoBookmarkDefaults ==
    (Collected /\ NoLocalBookmarkAtWc) =>
        /\ collected.info.bookmark = NoneStr
        /\ collected.info.has_remote = FALSE
        /\ collected.info.is_synced = TRUE

C7_Witness_RemotesButNoBookmark ==
    /\ Collected
    /\ NoLocalBookmarkAtWc
    /\ \E i \in DOMAIN repo.remote_bookmarks :
          /\ repo.remote_bookmarks[i].remote = "origin"
          /\ repo.remote_bookmarks[i].target # {repo.wc_id}
    /\ collected.info.bookmark = NoneStr
    /\ collected.info.is_synced

ExampleId ==
    <<"z", "z", "z", "z", "z", "z", "z", "z", "a", "a", "a", "a", "a", "a", "a", "a">>

\* The first k characters of s, one by one.
FirstChars(s, k) == [i \in 1..k |-> s[i]]

\* C8: the displayed change_id is the first min(id_length, len) characters of
\* the encoded change id: "zzzzzzzzaaaaaaaa" at id_length 8 gives "zzzzzzzz";
\* an id_length at or above the length gives the whole id, unpadded; id_length
\* 0 gives the empty string.
C8_ChangeIdIsPrefix ==
    /\ TruncateId(ExampleId, 8) = <<"z", "z", "z", "z", "z", "z", "z", "z">>
    /\ TruncateId(ExampleId, 20) = ExampleId
    /\ TruncateId(ExampleId, 16) = ExampleId
    /\ TruncateId(ExampleId, 0) = <<>>
    /\ Collected =>
          LET full == encode_reverse_hex(repo.change_id)
              n == config.id_length
          IN /\ collected.info.change_id = FirstChars(full, Min(n, Len(full)))
             /\ n >= Len(full) => collected.info.change_id = full
             /\ n = 0 => collected.info.change_id = <<>>

C8_Witness_SixteenCutToEight ==
    /\ Collected
    /\ Len(encode_reverse_hex(repo.change_id)) = 16
    /\ cli.id_length = SomeNum(8)
    /\ collected.info.change_id = <<"z", "z", "z", "z", "z", "z", "z", "z">>

\* C11: in the collector's result, with a bookmark present is_synced = true
\* implies has_remote = true; a bookmark with no remote ref of its name
\* outside the "git" remote gives has_remote = false and is_synced = false;
\* so has_remote = false with is_synced = true occurs if and only if bookmark
\* is None.
C11_SyncedOnlyWithRemoteOrNoBookmark ==
    Collected =>
        /\ collected.info.bookmark.some =>
              (collected.info.is_synced => collected.info.has_remote)
        /\ (/\ collected.info.bookmark.some
            /\ MatchingRemotes(collected.info.bookmark.val) = {}) =>
              (~collected.info.has_remote /\ ~collected.info.is_synced)
        /\ (~collected.info.has_remote /\ collected.info.is_synced)
              <=> ~collected.info.bookmark.some

\* A bookmark whose only remote ref is the "git" one, at the working copy.
C11_Witness_LocalOnlyBookmark ==
    /\ Collected
    /\ collected.info.bookmark = SomeStr("main")
    /\ \E i \in DOMAIN repo.remote_bookmarks :
          /\ repo.remote_bookmarks[i].name = "main"
          /\ repo.remote_bookmarks[i].remote = "git"
          /\ repo.remote_bookmarks[i].target = {repo.wc_id}
    /\ MatchingRemotes("main") = {}
    /\ ~collected.info.has_remote
    /\ ~collected.info.is_synced

-----------------------------------------------------------------------------
(* Configuration resolution: main's Config::new over the overrides *)

SymbolArgs == {NoneStr, SomeStr("custom"), SomeStr("JJ:"), SomeStr("")}

InitConfig ==
    /\ gitFeature \in BOOLEAN
    /\ osCwd \in {<<>>, NoDir}
    /\ cli \in {[NoCli EXCEPT !.jj_symbol = j, !.git_symbol = g, !.no_symbol = n,
                              !.id_length = l, !.truncate_name = t] :
                    j \in SymbolArgs,
                    g \in IF gitFeature THEN SymbolArgs ELSE {NoneStr},
                    n \in BOOLEAN,
                    l \in {NoneNum, SomeNum(12)},
                    t \in {NoneNum, SomeNum(20)}}
    /\ fs = [d \in Dirs |-> NoEntries]
    /\ repo = EmptyRepo
    /\ pc = "main"
    /\ caller = "none"
    /\ cwd = NonePath
    /\ current = RelPath(<<>>)
    /\ config = NoConfig
    /\ result = NoResult
    /\ collected = NotCollected
    /\ output = NoOutput
    /\ stdout = <<>>
    /\ exitCode = "running"
    /\ events = <<>>

SpecConfig == InitConfig /\ [][Main_Setup]_vars

\* main has built the Config.
ConfigBuilt == pc = "dispatch"

\* C9: no_symbol has unconditional precedence: for every combination of
\* jj_symbol and git_symbol overrides, present or absent, the Config built
\* with no_symbol = true has an empty jj_symbol and an empty git_symbol.
C9_NoSymbolEmptiesBothSymbols ==
    (ConfigBuilt /\ cli.no_symbol) =>
        /\ config.jj_symbol = ""
        /\ config.git_symbol = ""

C9_Witness_CustomSymbolOverridden ==
    /\ ConfigBuilt
    /\ cli.no_symbol
    /\ cli.jj_symbol = SomeStr("custom")
    /\ cli.git_symbol = SomeStr("JJ:")
    /\ config.jj_symbol = ""
    /\ config.git_symbol = ""

\* Without no_symbol the overrides, or the defaults, are kept.
Config_SymbolsWithoutNoSymbol ==
    (ConfigBuilt /\ ~cli.no_symbol) =>
        /\ config.jj_symbol =
              (IF cli.jj_symbol.some THEN cli.jj_symbol.val ELSE DefaultJjSymbol)
        /\ config.id_length =
              (IF cli.id_length.some THEN cli.id_length.val ELSE DefaultIdLength)

====
